---- MODULE Spec2Model ----
(***************************************************************************)
(* Model of plan/validator.go: the ast.Visitor that validates a parsed     *)
(* statement.  Validate walks the tree once, calling validator.Enter on    *)
(* the way down and validator.Leave on the way up; the checks write the    *)
(* validator's err field, and the Limit case of Leave rewrites the count   *)
(* of the caller's tree.                                                   *)
(***************************************************************************)
EXTENDS Integers, Sequences, FiniteSets, TLC

VARIABLES
    tree,       \* the caller's tree: a sequence of nodes, node 1 is the root
    input,      \* the tree as the caller first passed it
    inPrepare,  \* the inPrepare argument of Validate
    v,          \* the validator of the running call
    assigned,   \* the non-nil errors written to v.err by the running call, in order
    pc,         \* "idle", "walk" or "returned"
    cursor,     \* where node.Accept stands: [node, phase]
    result,     \* the error the last Validate call returned
    calls       \* the number of Validate calls made on the tree

vars == <<tree, input, inPrepare, v, assigned, pc, cursor, result, calls>>

----------------------------------------------------------------------------
(* Bounds of the model. *)

\* Size of a CREATE TABLE statement: columns beyond the first + column
\* options + constraints + table options (+ 1 when the table name is empty).
MaxItems == 3
\* Number of nodes of a tree with a LIMIT clause; the other expression trees
\* have up to one node less.
MaxNodes == 5
\* Width of the unsigned integers of a LIMIT clause (uint64 in the code).
UintBits == 3

----------------------------------------------------------------------------
(* Errors.  v.err holds one of these records; NoErr is nil. *)

Err(kind, arg) == [kind |-> kind, arg |-> arg]
NoErr == Err("nil", "")

ErrInvalidGroupFuncUse == Err("ErrInvalidGroupFuncUse", "")
ErrMultiplePriKey == Err("ErrMultiplePriKey", "")
ErrWrongTableName == Err("ErrWrongTableName", "")
ErrSyntaxParamMarker == Err("ErrSyntax", "?")
ErrColumnExists(name) == Err("ErrColumnExists", name)
ErrAlterAutoID == Err("ErrAlterAutoID", "")

ErrDashbaseConnRequired == Err("DASHBASE_CONN option is required", "")
ErrDashbaseConnInvalid == Err("DASHBASE_CONN is not valid", "")
ErrDashbasePKType == Err("Dashbase primary key column must be datetime", "")
ErrDashbasePKOneColumn == Err("Dashbase primary key must contain only one column", "")
ErrDashbaseConstraint(tp) == Err("Constraint not supported in Dashbase table", tp)
ErrDashbaseIndexOneColumn == Err("Dashbase index must contain only one column", "")
ErrDashbaseIndexType == Err("Dashbase index column must be text type", "")
ErrDashbaseNoPK == Err("Dashbase table should have a primary key", "")

ErrInvalidDefault(col) == Err("Invalid default value", col)
ErrAutoColumnKey == Err("only one auto column and it must be a key", "")
ErrColumnSpecifier(col) == Err("Incorrect column specifier", col)

----------------------------------------------------------------------------
(* Constants of the mysql and types packages the checks compare against. *)

UnspecifiedLength == -1
MaxFieldCharLength == 255
MaxFieldVarCharLength == 65535
PrecisionForDouble == 53
MaxTypeSetMembers == 64
DefaultCharset == "utf8"

\* math.MaxUint64, at the width of the model.
MaxUint64 == 2^UintBits - 1

----------------------------------------------------------------------------
(* strings.EqualFold on the strings of the model. *)

ToLower(s) ==
    CASE s = "DASHBASE" -> "dashbase"
      [] s = "Dashbase" -> "dashbase"
      [] s = "MyIsam" -> "myisam"
      [] s = "MyISAM" -> "myisam"
      [] s = "InnoDB" -> "innodb"
      [] OTHER -> s

EqualFold(s, t) == ToLower(s) = ToLower(t)

\* charset.GetCharsetDesc: the bytes per character of a charset, 0 when the
\* charset is unknown (the call returns an error).
CharsetMaxlen(cs) ==
    CASE cs = "utf8" -> 3
      [] cs = "utf8mb4" -> 4
      [] cs = "latin1" -> 1
      [] OTHER -> 0

\* dashbase.ParseConnectionOption: whether the connection string parses.
ParseConnectionOption(s) == s = "host:9876/table"

----------------------------------------------------------------------------
(* checkFieldLengthLimitation *)

\* Wide stands for Flen > math.MaxUint32, a length beyond the integers of
\* the model.
checkFieldLengthLimitation(colDef) ==
    LET tp == colDef.Tp IN
    IF tp.Wide THEN Err("ErrTooBigDisplayWidth", colDef.Name)
    ELSE CASE tp.Tp = "TypeString" ->
                IF tp.Flen # UnspecifiedLength /\ tp.Flen > MaxFieldCharLength
                THEN Err("ErrTooBigFieldLength", colDef.Name) ELSE NoErr
           [] tp.Tp = "TypeVarchar" ->
                LET cs == IF tp.Charset = "" THEN DefaultCharset ELSE tp.Charset
                    maxlen == CharsetMaxlen(cs)
                IN  IF maxlen = 0 THEN Err("ErrUnknownCharset", cs)
                    ELSE IF tp.Flen # UnspecifiedLength
                            /\ tp.Flen > MaxFieldVarCharLength \div maxlen
                         THEN Err("ErrTooBigFieldLength", colDef.Name)
                         ELSE NoErr
           [] tp.Tp = "TypeDouble" ->
                IF tp.Flen # UnspecifiedLength /\ tp.Flen > PrecisionForDouble
                THEN Err("ErrWrongFieldSpec", colDef.Name) ELSE NoErr
           [] tp.Tp = "TypeSet" ->
                IF tp.Elems > MaxTypeSetMembers
                THEN Err("ErrTooBigSet", colDef.Name) ELSE NoErr
           [] OTHER -> NoErr

(* checkDuplicateColumnName: the first pair i < j of equal names, in the
   order of the two loops. *)
RECURSIVE DupFrom(_, _, _)
DupFrom(names, i, j) ==
    IF i > Len(names) THEN NoErr
    ELSE IF j > Len(names) THEN DupFrom(names, i + 1, i + 2)
    ELSE IF names[i] = names[j] THEN ErrColumnExists(names[j])
    ELSE DupFrom(names, i, j + 1)

checkDuplicateColumnName(indexColNames) == DupFrom(indexColNames, 1, 2)

\* isPrimary looking for the wrong option type.
isPrimaryByUniqueOption(ops) ==
    IF \E i \in 1..Len(ops) : ops[i].Tp = "ColumnOptionUniqKey" THEN 1 ELSE 0

isPrimary(ops) ==
    IF \E i \in 1..Len(ops) : ops[i].Tp = "ColumnOptionPrimaryKey" THEN 1 ELSE 0

IndexConstraintTps ==
    {"ConstraintKey", "ConstraintIndex", "ConstraintUniq", "ConstraintUniqKey",
     "ConstraintUniqIndex"}

(* checkCreateTableGrammar: the error it writes to v.err, NoErr when none. *)
RECURSIVE GrammarCols(_, _, _)
GrammarCols(cols, i, countPrimaryKey) ==
    IF i > Len(cols) THEN [err |-> NoErr, count |-> countPrimaryKey]
    ELSE LET e == checkFieldLengthLimitation(cols[i])
             n == countPrimaryKey + isPrimary(cols[i].Options)
         IN  IF e # NoErr THEN [err |-> e, count |-> countPrimaryKey]
             ELSE IF n > 1 THEN [err |-> ErrMultiplePriKey, count |-> n]
             ELSE GrammarCols(cols, i + 1, n)

RECURSIVE GrammarConstraints(_, _, _)
GrammarConstraints(cs, i, countPrimaryKey) ==
    IF i > Len(cs) THEN NoErr
    ELSE IF cs[i].Tp \in IndexConstraintTps THEN
             LET e == checkDuplicateColumnName(cs[i].Keys)
             IN  IF e # NoErr THEN e
                 ELSE GrammarConstraints(cs, i + 1, countPrimaryKey)
    ELSE IF cs[i].Tp = "ConstraintPrimaryKey" THEN
             IF countPrimaryKey > 0 THEN ErrMultiplePriKey
             ELSE LET e == checkDuplicateColumnName(cs[i].Keys)
                  IN  IF e # NoErr THEN e
                      ELSE GrammarConstraints(cs, i + 1, countPrimaryKey + 1)
    ELSE GrammarConstraints(cs, i + 1, countPrimaryKey)

checkCreateTableGrammar(stmt) ==
    IF stmt.Table = "" THEN ErrWrongTableName
    ELSE LET c == GrammarCols(stmt.Cols, 1, 0)
         IN  IF c.err # NoErr THEN c.err
             ELSE GrammarConstraints(stmt.Constraints, 1, c.count)

(* checkCreateIndexGrammar: the value it assigns to v.err. *)
checkCreateIndexGrammar(stmt) == checkDuplicateColumnName(stmt.IndexColNames)

\* spec.NewColumn = nil.
NoColumn ==
    [Name |-> "",
     Tp |-> [Tp |-> "", Flen |-> UnspecifiedLength, Wide |-> FALSE, Charset |-> "",
             Elems |-> 0],
     Options |-> <<>>]

(* checkAlterTableGrammar: [err, assigned]; err is the error it leaves in
   v.err and assigned tells whether it assigned v.err at all (the duplicate
   check of an added index constraint assigns its result, nil included). *)
RECURSIVE AlterSpecs(_, _, _)
AlterSpecs(specs, i, wrote) ==
    IF i > Len(specs) THEN [err |-> NoErr, assigned |-> wrote]
    ELSE LET spec == specs[i]
             e == IF spec.NewColumn # NoColumn
                  THEN checkFieldLengthLimitation(spec.NewColumn) ELSE NoErr
         IN  IF e # NoErr THEN [err |-> e, assigned |-> TRUE]
             ELSE IF spec.Tp = "AlterTableAddConstraint" THEN
                 IF spec.Constraint.Tp \in IndexConstraintTps
                 THEN LET d == checkDuplicateColumnName(spec.Constraint.Keys)
                      IN  IF d # NoErr THEN [err |-> d, assigned |-> TRUE]
                          ELSE AlterSpecs(specs, i + 1, TRUE)
                 ELSE AlterSpecs(specs, i + 1, wrote)
             ELSE IF spec.Tp = "AlterTableOption" THEN
                 IF \E k \in 1..Len(spec.Options) :
                        spec.Options[k].Tp = "TableOptionAutoIncrement"
                 THEN [err |-> ErrAlterAutoID, assigned |-> TRUE]
                 ELSE AlterSpecs(specs, i + 1, wrote)
             ELSE AlterSpecs(specs, i + 1, wrote)

checkAlterTableGrammar(stmt) == AlterSpecs(stmt.Specs, 1, FALSE)

----------------------------------------------------------------------------
(* checkAutoIncrementOp: [has |-> hasAutoIncrement, err |-> the error]. *)

NonNullDefault(op) == op.Tp = "ColumnOptionDefaultValue" /\ ~op.IsNull

\* checkAutoIncrementOp without the scan from a default value to a later
\* auto-increment option.
checkAutoIncrementOpForwardOnly(colDef, num) ==
    LET ops == colDef.Options
        has == ops[num].Tp = "ColumnOptionAutoIncrement"
    IN  IF has /\ \E k \in (num + 1)..Len(ops) : NonNullDefault(ops[k])
        THEN [has |-> has, err |-> ErrInvalidDefault(colDef.Name)]
        ELSE [has |-> has, err |-> NoErr]

checkAutoIncrementOp(colDef, num) ==
    LET ops == colDef.Options
        has == ops[num].Tp = "ColumnOptionAutoIncrement"
        later == (num + 1)..Len(ops)
    IN  IF has /\ Len(ops) = num THEN [has |-> has, err |-> NoErr]
        ELSE IF has /\ \E k \in later : NonNullDefault(ops[k])
             THEN [has |-> has, err |-> ErrInvalidDefault(colDef.Name)]
        ELSE IF ops[num].Tp = "ColumnOptionDefaultValue" /\ Len(ops) # num
                /\ ~ops[num].IsNull
                /\ \E k \in later : ops[k].Tp = "ColumnOptionAutoIncrement"
             THEN [has |-> has, err |-> ErrInvalidDefault(colDef.Name)]
        ELSE [has |-> has, err |-> NoErr]

(* isConstraintKeyTp *)
KeyConstraintTps ==
    {"ConstraintPrimaryKey", "ConstraintKey", "ConstraintIndex", "ConstraintUniq",
     "ConstraintUniqIndex", "ConstraintUniqKey"}

isConstraintKeyTp(constraints, colDef) ==
    \E i \in 1..Len(constraints) :
        /\ colDef.Name = constraints[i].Keys[1]
        /\ constraints[i].Tp \in KeyConstraintTps

(* getStmtTableOption: the index of the first option of the type, 0 for nil. *)
getStmtTableOption(stmt, tp) ==
    LET hits == {i \in 1..Len(stmt.Options) : stmt.Options[i].Tp = tp}
    IN  IF hits = {} THEN 0 ELSE CHOOSE i \in hits : \A k \in hits : i <= k

isEngineDashbase(stmt) ==
    LET opt == getStmtTableOption(stmt, "TableOptionEngine")
    IN  IF opt = 0 THEN FALSE
        ELSE EqualFold(stmt.Options[opt].StrValue, "Dashbase")

----------------------------------------------------------------------------
(* checkDashbase: the error it writes to v.err, NoErr when none. *)

\* The first column of the statement with the name, 0 when there is none.
FirstColNamed(cols, name) ==
    LET hits == {i \in 1..Len(cols) : cols[i].Name = name}
    IN  IF hits = {} THEN 0 ELSE CHOOSE i \in hits : \A k \in hits : i <= k

\* The loop over the columns and their options (lines 195-206).
RECURSIVE DashbaseCols(_, _, _, _)
DashbaseCols(cols, i, j, primaryKeys) ==
    IF i > Len(cols) THEN [err |-> NoErr, count |-> primaryKeys]
    ELSE IF j > Len(cols[i].Options) THEN DashbaseCols(cols, i + 1, 1, primaryKeys)
    ELSE IF cols[i].Options[j].Tp = "ColumnOptionPrimaryKey" THEN
             IF cols[i].Tp.Tp # "TypeDatetime"
             THEN [err |-> ErrDashbasePKType, count |-> primaryKeys + 1]
             ELSE DashbaseCols(cols, i, j + 1, primaryKeys + 1)
    ELSE DashbaseCols(cols, i, j + 1, primaryKeys)

\* The loop over the constraints (lines 208-246).
RECURSIVE DashbaseConstraints(_, _, _, _)
DashbaseConstraints(cols, cs, i, primaryKeys) ==
    IF i > Len(cs) THEN [err |-> NoErr, count |-> primaryKeys]
    ELSE LET c == cs[i]
             col == FirstColNamed(cols, c.Keys[1])
         IN  IF c.Tp = "ConstraintPrimaryKey" THEN
                 IF Len(c.Keys) # 1
                 THEN [err |-> ErrDashbasePKOneColumn, count |-> primaryKeys + 1]
                 ELSE IF col # 0 /\ cols[col].Tp.Tp # "TypeDatetime"
                 THEN [err |-> ErrDashbasePKType, count |-> primaryKeys + 1]
                 ELSE DashbaseConstraints(cols, cs, i + 1, primaryKeys + 1)
             ELSE IF c.Tp \in {"ConstraintUniq", "ConstraintUniqKey", "ConstraintUniqIndex"}
                 THEN [err |-> ErrDashbaseConstraint(c.Tp), count |-> primaryKeys]
             ELSE IF c.Tp \in {"ConstraintKey", "ConstraintIndex"} THEN
                 IF Len(c.Keys) # 1
                 THEN [err |-> ErrDashbaseIndexOneColumn, count |-> primaryKeys]
                 ELSE IF col # 0 /\ cols[col].Tp.Tp # "TypeBlob"
                 THEN [err |-> ErrDashbaseIndexType, count |-> primaryKeys]
                 ELSE DashbaseConstraints(cols, cs, i + 1, primaryKeys)
             ELSE DashbaseConstraints(cols, cs, i + 1, primaryKeys)

checkDashbase(stmt) ==
    IF ~isEngineDashbase(stmt) THEN NoErr
    ELSE LET opt == getStmtTableOption(stmt, "TableOptionDashbaseConnection")
         IN  IF opt = 0 THEN ErrDashbaseConnRequired
             ELSE IF ~ParseConnectionOption(stmt.Options[opt].StrValue)
                  THEN ErrDashbaseConnInvalid
             ELSE LET c == DashbaseCols(stmt.Cols, 1, 1, 0)
                  IN  IF c.err # NoErr THEN c.err
                      ELSE LET k == DashbaseConstraints(stmt.Cols, stmt.Constraints,
                                                        1, c.count)
                           IN  IF k.err # NoErr THEN k.err
                               ELSE IF k.count = 0 THEN ErrDashbaseNoPK
                               ELSE NoErr

----------------------------------------------------------------------------
(* checkAutoIncrement: the errors it writes to v.err, in order. *)

AutoIncrementTps ==
    {"TypeTiny", "TypeShort", "TypeLong", "TypeFloat", "TypeDouble", "TypeLonglong",
     "TypeInt24"}

\* The loop over the options of one column (lines 264-277), from option i on.
RECURSIVE AutoIncOptions(_, _, _, _)
AutoIncOptions(colDef, i, hasAutoIncrement, isKey) ==
    IF i > Len(colDef.Options)
    THEN [err |-> NoErr, has |-> hasAutoIncrement, isKey |-> isKey]
    ELSE LET r == checkAutoIncrementOp(colDef, i)
         IN  IF r.err # NoErr
             THEN [err |-> r.err, has |-> hasAutoIncrement, isKey |-> isKey]
             ELSE AutoIncOptions(colDef, i + 1, hasAutoIncrement \/ r.has,
                    isKey \/ colDef.Options[i].Tp \in
                                {"ColumnOptionPrimaryKey", "ColumnOptionUniqKey"})

\* The loop over the columns (lines 262-282); autoCol is the index of
\* autoIncrementCol, 0 for nil.  isKey is not reset between the columns.
RECURSIVE AutoIncCols(_, _, _, _, _)
AutoIncCols(cols, i, isKey, count, autoCol) ==
    IF i > Len(cols)
    THEN [err |-> NoErr, isKey |-> isKey, count |-> count, autoCol |-> autoCol]
    ELSE LET r == AutoIncOptions(cols[i], 1, FALSE, isKey)
         IN  IF r.err # NoErr
             THEN [err |-> r.err, isKey |-> r.isKey, count |-> count,
                   autoCol |-> autoCol]
             ELSE IF r.has THEN AutoIncCols(cols, i + 1, r.isKey, count + 1, i)
             ELSE AutoIncCols(cols, i + 1, r.isKey, count, autoCol)

autoIncrementMustBeKey(stmt) ==
    ~\E i \in 1..Len(stmt.Options) :
        /\ stmt.Options[i].Tp = "TableOptionEngine"
        /\ EqualFold(stmt.Options[i].StrValue, "MyISAM")

\* The type switch letting a datetime column through.
autoIncrementTypeCheckWithDatetime(colDef) ==
    IF colDef.Tp.Tp \in AutoIncrementTps \cup {"TypeDatetime"} THEN <<>>
    ELSE <<ErrColumnSpecifier(colDef.Name)>>

\* The type switch closing checkAutoIncrement (lines 300-305).
autoIncrementTypeCheck(colDef) ==
    IF colDef.Tp.Tp \in AutoIncrementTps THEN <<>>
    ELSE <<ErrColumnSpecifier(colDef.Name)>>

checkAutoIncrement(stmt) ==
    LET r == AutoIncCols(stmt.Cols, 1, FALSE, 0, 0)
    IN  IF r.err # NoErr THEN <<r.err>>
        ELSE IF r.count < 1 THEN <<>>
        ELSE LET col == stmt.Cols[r.autoCol]
                 isKey == r.isKey \/ isConstraintKeyTp(stmt.Constraints, col)
                 keyErr == IF (autoIncrementMustBeKey(stmt) /\ ~isKey) \/ r.count > 1
                           THEN <<ErrAutoColumnKey>> ELSE <<>>
             IN  keyErr \o autoIncrementTypeCheck(col)

----------------------------------------------------------------------------
(* The trees Validate is called on.  A node is a record
   [kind, parent, kids, stmt, Count, Offset, val]: kids are the children in
   the order node.Accept visits them, stmt is the statement of a
   CreateTableStmt node, Count and Offset are the children of a Limit node
   holding its count and offset (0 for nil), val is the value of a ValueExpr. *)

NoStmt == [Table |-> "", Cols |-> <<>>, Constraints |-> <<>>, Options |-> <<>>]

Node(kind, parent, kids) ==
    [kind |-> kind, parent |-> parent, kids |-> kids, stmt |-> NoStmt,
     Count |-> 0, Offset |-> 0, val |-> 0]

FieldType(tp, flen) ==
    [Tp |-> tp, Flen |-> flen, Wide |-> FALSE, Charset |-> "", Elems |-> 0]

\* The declared types of the columns: int, datetime, text, and a varchar
\* longer than the utf8 limit of checkFieldLengthLimitation.
FieldTypes ==
    {FieldType("TypeLong", UnspecifiedLength),
     FieldType("TypeDatetime", UnspecifiedLength),
     FieldType("TypeBlob", UnspecifiedLength),
     FieldType("TypeVarchar", MaxFieldVarCharLength)}

ColumnOptions ==
    {[Tp |-> "ColumnOptionPrimaryKey", IsNull |-> FALSE],
     [Tp |-> "ColumnOptionUniqKey", IsNull |-> FALSE],
     [Tp |-> "ColumnOptionAutoIncrement", IsNull |-> FALSE],
     [Tp |-> "ColumnOptionDefaultValue", IsNull |-> FALSE],
     [Tp |-> "ColumnOptionDefaultValue", IsNull |-> TRUE]}

\* Column number i is named ColNames[i] (the lower-case form, Name.Name.L).
ColNames == <<"a", "b", "c", "d", "e", "f", "g", "h">>

Constraint(tp, keys) == [Tp |-> tp, Keys |-> keys]

ConstraintValues ==
    {Constraint("ConstraintPrimaryKey", <<"a">>),
     Constraint("ConstraintPrimaryKey", <<"b">>),
     Constraint("ConstraintPrimaryKey", <<"b", "a">>),
     Constraint("ConstraintKey", <<"a">>),
     Constraint("ConstraintKey", <<"b", "a">>),
     Constraint("ConstraintKey", <<"a", "a">>),
     Constraint("ConstraintUniq", <<"a">>),
     Constraint("ConstraintForeignKey", <<"a">>)}

TableOptionValues ==
    [Tp : {"TableOptionEngine"}, StrValue : {"DASHBASE", "MyIsam"}]
    \cup [Tp : {"TableOptionDashbaseConnection"},
          StrValue : {"host:9876/table", "nowhere"}]

\* The column lists of b items beyond the first column (a further column
\* and every column option are one item each); the first is column number i.
RECURSIVE ColSeqs(_, _)
ColSeqs(b, i) ==
    UNION {
       LET heads == {[Name |-> ColNames[i], Tp |-> t, Options |-> o] :
                        t \in FieldTypes, o \in [1..k -> ColumnOptions]}
           rests == IF k = b THEN {<<>>} ELSE ColSeqs(b - 1 - k, i + 1)
       IN  {<<h>> \o rest : h \in heads, rest \in rests} : k \in 0..b}

\* How the items of a statement are split: <<column items, constraints,
\* table options, 1 for an empty table name>>.
StmtShapes ==
    {x \in (0..MaxItems) \X (0..MaxItems) \X (0..MaxItems) \X {0, 1} :
        x[1] + x[2] + x[3] + x[4] <= MaxItems}

CreateTableStmt(sh, cols, cons, opts) ==
    [Table |-> IF sh[4] = 1 THEN "" ELSE "t", Cols |-> cols,
     Constraints |-> cons, Options |-> opts]

CreateTableTree(stmt) ==
    <<[Node("CreateTableStmt", 0, <<>>) EXCEPT !.stmt = stmt]>>

(* CREATE INDEX and ALTER TABLE statements. *)
IndexColNameLists == {<<"a">>, <<"a", "b">>, <<"a", "a">>, <<"b", "a", "b">>}

CreateIndexTree(names) ==
    <<[Node("CreateIndexStmt", 0, <<>>) EXCEPT !.stmt = [IndexColNames |-> names]]>>

AlterSpec(tp, col, constraint, opts) ==
    [Tp |-> tp, NewColumn |-> col, Constraint |-> constraint, Options |-> opts]

NoConstraint == Constraint("", <<>>)

AlterSpecValues ==
    {AlterSpec("AlterTableAddColumn",
               [Name |-> "c", Tp |-> FieldType("TypeLong", UnspecifiedLength),
                Options |-> <<>>], NoConstraint, <<>>),
     AlterSpec("AlterTableAddColumn",
               [Name |-> "c", Tp |-> FieldType("TypeVarchar", MaxFieldVarCharLength),
                Options |-> <<>>], NoConstraint, <<>>),
     AlterSpec("AlterTableAddConstraint", NoColumn,
               Constraint("ConstraintKey", <<"a", "b">>), <<>>),
     AlterSpec("AlterTableAddConstraint", NoColumn,
               Constraint("ConstraintUniq", <<"a", "a">>), <<>>),
     AlterSpec("AlterTableAddConstraint", NoColumn,
               Constraint("ConstraintPrimaryKey", <<"a", "a">>), <<>>),
     AlterSpec("AlterTableOption", NoColumn, NoConstraint,
               <<[Tp |-> "TableOptionEngine", StrValue |-> "InnoDB"]>>),
     AlterSpec("AlterTableOption", NoColumn, NoConstraint,
               <<[Tp |-> "TableOptionAutoIncrement", StrValue |-> ""]>>),
     AlterSpec("AlterTableDropColumn", NoColumn, NoConstraint, <<>>)}

AlterTableTree(specs) ==
    <<[Node("AlterTableStmt", 0, <<>>) EXCEPT !.stmt = [Specs |-> specs]]>>

----------------------------------------------------------------------------
(* Expression trees: node i > 1 hangs under an earlier node; the kinds are
   AggregateFuncExpr, ParamMarkerExpr (a leaf) and Other (any node kind the
   validator has no case for: a SelectStmt, an operator, a column name). *)

RECURSIVE SortedSeq(_)
SortedSeq(S) ==
    IF S = {} THEN <<>>
    ELSE LET m == CHOOSE x \in S : \A y \in S : x <= y
         IN  <<m>> \o SortedSeq(S \ {m})

KidsOf(parents, i) ==
    SortedSeq({j \in DOMAIN parents : parents[j] = i})

ExprKinds == {"Other", "AggregateFuncExpr", "ParamMarkerExpr"}

ExprTree(n, parents, kinds) ==
    [i \in 1..n |-> Node(kinds[i], parents[i], KidsOf(parents, i))]

\* The ways to hang nodes 2..n under earlier nodes (node 1 is the root).
ParentMaps(n) ==
    {p \in [1..n -> 0..(n - 1)] : \A i \in 1..n : p[i] < i /\ (i > 1 => p[i] > 0)}

WellFormedExpr(t) ==
    \A i \in 1..Len(t) : t[i].kind = "ParamMarkerExpr" => t[i].kids = <<>>

(* Trees with a LIMIT clause: a root with k leaves (select fields) visited
   before its Limit node; the count and the offset of the Limit are nil (-1),
   a parameter marker (-2) or a ValueExpr holding a uint64. *)
LimitOperands == (-2)..MaxUint64

OperandNode(c, parent) ==
    IF c = -2 THEN Node("ParamMarkerExpr", parent, <<>>)
    ELSE [Node("ValueExpr", parent, <<>>) EXCEPT !.val = c]

LimitTree(fields, count, offset) ==
    LET k == Len(fields)
        lim == k + 2
        cnt == IF count = -1 THEN 0 ELSE lim + 1
        off == IF offset = -1 THEN 0 ELSE IF cnt = 0 THEN lim + 1 ELSE lim + 2
    IN  <<Node("Other", 0, [i \in 1..(k + 1) |-> i + 1])>>
        \o [i \in 1..k |-> Node(fields[i], 1, <<>>)]
        \o <<[Node("Limit", 1, (IF cnt = 0 THEN <<>> ELSE <<cnt>>)
                               \o (IF off = 0 THEN <<>> ELSE <<off>>))
               EXCEPT !.Count = cnt, !.Offset = off]>>
        \o (IF cnt = 0 THEN <<>> ELSE <<OperandNode(count, lim)>>)
        \o (IF off = 0 THEN <<>> ELSE <<OperandNode(offset, lim)>>)

LimitFieldKinds == {"ParamMarkerExpr", "AggregateFuncExpr"}

----------------------------------------------------------------------------
(* node.Accept(&v), the traversal protocol of the ast package: Enter the
   node; unless Enter asks to skip the children, Accept each child in order,
   returning at once when a child's Accept reports not ok; then Leave the
   node, also when the children were skipped. *)

IndexIn(kids, n) == CHOOSE i \in 1..Len(kids) : kids[i] = n

AfterEnter(t, n, skipChildren) ==
    IF skipChildren \/ t[n].kids = <<>> THEN [node |-> n, phase |-> "leave"]
    ELSE [node |-> t[n].kids[1], phase |-> "enter"]

AfterLeave(t, n, ok) ==
    IF ~ok \/ t[n].parent = 0 THEN [node |-> n, phase |-> "done"]
    ELSE LET p == t[n].parent
             i == IndexIn(t[p].kids, n)
         IN  IF i < Len(t[p].kids) THEN [node |-> t[p].kids[i + 1], phase |-> "enter"]
             ELSE [node |-> p, phase |-> "leave"]

----------------------------------------------------------------------------
(* validator.Enter: [v, writes, skipChildren], writes being the errors it
   assigns to v.err. *)

EnterAggregate(val) ==
    IF val.inAggregate
    THEN [v |-> [val EXCEPT !.err = ErrInvalidGroupFuncUse],
          writes |-> <<ErrInvalidGroupFuncUse>>, skipChildren |-> TRUE]
    ELSE [v |-> [val EXCEPT !.inAggregate = TRUE], writes |-> <<>>,
          skipChildren |-> FALSE]

EnterCreateTable(val, stmt) ==
    LET e == checkCreateTableGrammar(stmt)
        err == IF e # NoErr THEN e ELSE val.err
    IN  [v |-> [val EXCEPT !.err = err],
         writes |-> IF e # NoErr THEN <<e>> ELSE <<>>,
         skipChildren |-> err # NoErr]

EnterCreateIndex(val, stmt) ==
    LET e == checkCreateIndexGrammar(stmt)
    IN  [v |-> [val EXCEPT !.err = e],
         writes |-> IF e # NoErr THEN <<e>> ELSE <<>>,
         skipChildren |-> e # NoErr]

EnterAlterTable(val, stmt) ==
    LET r == checkAlterTableGrammar(stmt)
        err == IF r.assigned THEN r.err ELSE val.err
    IN  [v |-> [val EXCEPT !.err = err],
         writes |-> IF r.err # NoErr THEN <<r.err>> ELSE <<>>,
         skipChildren |-> err # NoErr]

Enter(val, node) ==
    CASE node.kind = "AggregateFuncExpr" -> EnterAggregate(val)
      [] node.kind = "CreateTableStmt" -> EnterCreateTable(val, node.stmt)
      [] node.kind = "CreateIndexStmt" -> EnterCreateIndex(val, node.stmt)
      [] node.kind = "AlterTableStmt" -> EnterAlterTable(val, node.stmt)
      [] OTHER -> [v |-> val, writes |-> <<>>, skipChildren |-> FALSE]

----------------------------------------------------------------------------
(* validator.Leave: [v, writes, tree, ok]. *)

Last(errs, default) == IF errs = <<>> THEN default ELSE errs[Len(errs)]

\* Leave of an aggregate that forgets to reset the flag.
LeaveAggregateKeepingFlag(val) == val

LeaveAggregate(val) == [val EXCEPT !.inAggregate = FALSE]

LeaveCreateTable(val, stmt) ==
    LET d == checkDashbase(stmt)
        writes == (IF d # NoErr THEN <<d>> ELSE <<>>) \o checkAutoIncrement(stmt)
    IN  [v |-> [val EXCEPT !.err = Last(writes, val.err)], writes |-> writes]

\* The clamp comparing the count with the maximum alone.
clampCountIgnoringOffset(count, offset) ==
    IF count > MaxUint64 THEN MaxUint64 - offset ELSE count

\* The clamp taking the offset off the count.
clampCountBySubtraction(count, offset) ==
    IF count > offset THEN count - offset ELSE count

\* The count a Limit is left with (lines 103-105).
clampCount(count, offset) ==
    IF count > MaxUint64 - offset THEN MaxUint64 - offset ELSE count

\* GetValue().(uint64) of a count or offset expression: 0 unless it holds one.
Uint64Of(t, n) == IF n # 0 /\ t[n].kind = "ValueExpr" THEN t[n].val ELSE 0

LeaveLimit(t, n) ==
    LET x == t[n] IN
    IF x.Count = 0 \/ t[x.Count].kind = "ParamMarkerExpr" THEN t
    ELSE [t EXCEPT ![x.Count].val =
              clampCount(Uint64Of(t, x.Count), Uint64Of(t, x.Offset))]

Leave(val, t, n) ==
    LET r == CASE t[n].kind = "AggregateFuncExpr" ->
                    [v |-> LeaveAggregate(val), writes |-> <<>>, tree |-> t]
               [] t[n].kind = "CreateTableStmt" ->
                    LeaveCreateTable(val, t[n].stmt) @@ [tree |-> t]
               [] t[n].kind = "ParamMarkerExpr" ->
                    IF ~val.inPrepare
                    THEN [v |-> [val EXCEPT !.err = ErrSyntaxParamMarker],
                          writes |-> <<ErrSyntaxParamMarker>>, tree |-> t]
                    ELSE [v |-> val, writes |-> <<>>, tree |-> t]
               [] t[n].kind = "Limit" ->
                    [v |-> val, writes |-> <<>>, tree |-> LeaveLimit(t, n)]
               [] OTHER -> [v |-> val, writes |-> <<>>, tree |-> t]
    IN  r @@ [ok |-> r.v.err = NoErr]

----------------------------------------------------------------------------
(* The state machine. *)

NewValidator(prep) ==
    [err |-> NoErr, wildCardCount |-> 0, inPrepare |-> prep, inAggregate |-> FALSE]

InitCreateTable ==
    \E sh \in StmtShapes :
      \E cols \in ColSeqs(sh[1], 1) :
        \E cons \in [1..sh[2] -> ConstraintValues] :
          \E opts \in [1..sh[3] -> TableOptionValues] :
            /\ tree = CreateTableTree(CreateTableStmt(sh, cols, cons, opts))
            /\ inPrepare = FALSE

InitCreateIndex ==
    /\ \E names \in IndexColNameLists : tree = CreateIndexTree(names)
    /\ inPrepare = FALSE

InitAlterTable ==
    /\ \E n \in 1..(MaxItems - 1) :
          \E specs \in [1..n -> AlterSpecValues] : tree = AlterTableTree(specs)
    /\ inPrepare = FALSE

InitExpr ==
    \E n \in 1..(MaxNodes - 1) :
      \E parents \in ParentMaps(n) :
        \E kinds \in [1..n -> ExprKinds] :
          /\ WellFormedExpr(ExprTree(n, parents, kinds))
          /\ tree = ExprTree(n, parents, kinds)
          /\ inPrepare \in BOOLEAN

InitLimit ==
    \E k \in 0..(MaxNodes - 2) :
      \E fields \in [1..k -> LimitFieldKinds] :
        \E count \in LimitOperands, offset \in LimitOperands :
          /\ Len(LimitTree(fields, count, offset)) <= MaxNodes
          /\ tree = LimitTree(fields, count, offset)
          /\ inPrepare \in BOOLEAN

Init ==
    /\ \/ InitCreateTable
       \/ InitCreateIndex
       \/ InitAlterTable
       \/ InitExpr
       \/ InitLimit
    /\ input = tree
    /\ v = NewValidator(inPrepare)
    /\ assigned = <<>>
    /\ pc = "idle"
    /\ cursor = [node |-> 1, phase |-> "done"]
    /\ result = NoErr
    /\ calls = 0

\* Validate, up to node.Accept: a fresh validator.  The caller validates a
\* statement once, and possibly once more when it was accepted.
ValidateCall ==
    /\ pc = "idle"
    /\ calls = 0 \/ (calls = 1 /\ result = NoErr)
    /\ v' = NewValidator(inPrepare)
    /\ assigned' = <<>>
    /\ pc' = "walk"
    /\ cursor' = [node |-> 1, phase |-> "enter"]
    /\ calls' = calls + 1
    /\ UNCHANGED <<tree, input, inPrepare, result>>

EnterNode ==
    /\ pc = "walk"
    /\ cursor.phase = "enter"
    /\ LET r == Enter(v, tree[cursor.node])
       IN  /\ v' = r.v
           /\ assigned' = assigned \o r.writes
           /\ cursor' = AfterEnter(tree, cursor.node, r.skipChildren)
    /\ UNCHANGED <<tree, input, inPrepare, pc, result, calls>>

LeaveNode ==
    /\ pc = "walk"
    /\ cursor.phase = "leave"
    /\ LET r == Leave(v, tree, cursor.node)
       IN  /\ v' = r.v
           /\ assigned' = assigned \o r.writes
           /\ tree' = r.tree
           /\ cursor' = AfterLeave(tree, cursor.node, r.ok)
    /\ UNCHANGED <<input, inPrepare, pc, result, calls>>

\* Validate, after node.Accept: return v.err.
ValidateReturn ==
    /\ pc = "walk"
    /\ cursor.phase = "done"
    /\ result' = v.err
    /\ pc' = "idle"
    /\ UNCHANGED <<tree, input, inPrepare, v, assigned, cursor, calls>>

Next ==
    \/ ValidateCall
    \/ EnterNode
    \/ LeaveNode
    \/ ValidateReturn

Spec == Init /\ [][Next]_vars

TypeOK ==
    /\ pc \in {"idle", "walk"}
    /\ calls \in 0..2
    /\ cursor.node \in 1..Len(tree)
    /\ Len(tree) = Len(input)

----------------------------------------------------------------------------
(* Vocabulary of the properties. *)

\* A Validate call has returned.
Returned == pc = "idle" /\ calls >= 1

IsCreateTable == input[1].kind = "CreateTableStmt"
Stmt == input[1].stmt

HasOption(colDef, tp) == \E i \in 1..Len(colDef.Options) : colDef.Options[i].Tp = tp

CountOptions(colDef, tp) ==
    Cardinality({i \in 1..Len(colDef.Options) : colDef.Options[i].Tp = tp})

RECURSIVE SumOver(_, _)
SumOver(f, S) ==
    IF S = {} THEN 0
    ELSE LET x == CHOOSE x \in S : TRUE IN f[x] + SumOver(f, S \ {x})

PrimaryKeyConstraints(stmt) ==
    {i \in 1..Len(stmt.Constraints) : stmt.Constraints[i].Tp = "ConstraintPrimaryKey"}

\* Primary-key markers: column-level PRIMARY KEY options plus table-level
\* primary-key constraints.
PrimaryKeyMarkers(stmt) ==
    SumOver([i \in 1..Len(stmt.Cols) |->
                CountOptions(stmt.Cols[i], "ColumnOptionPrimaryKey")],
            1..Len(stmt.Cols))
    + Cardinality(PrimaryKeyConstraints(stmt))

\* Columns carrying a PRIMARY KEY option plus table-level primary-key constraints.
PrimaryKeyDeclarations(stmt) ==
    Cardinality({i \in 1..Len(stmt.Cols) :
                    HasOption(stmt.Cols[i], "ColumnOptionPrimaryKey")})
    + Cardinality(PrimaryKeyConstraints(stmt))

AutoIncrementCols(stmt) ==
    {i \in 1..Len(stmt.Cols) : HasOption(stmt.Cols[i], "ColumnOptionAutoIncrement")}

AutoIncrementErrors ==
    {"Invalid default value", "only one auto column and it must be a key",
     "Incorrect column specifier"}

Min(a, b) == IF a < b THEN a ELSE b

----------------------------------------------------------------------------
(* C1: once an error has been written to the validator's error slot, no
   later check of the same Validate call writes another one, so the slot
   holds the first error written in traversal order. *)
C1_ErrorSlotIsSticky ==
    assigned # <<>> => Len(assigned) = 1 /\ v.err = assigned[1]

(* C2: for a CreateTable with a non-empty table name, more than one
   primary-key marker makes Validate return the multiple-primary-key error,
   and exactly one marker never does. *)
C2_MultiplePrimaryKeyReturned ==
    (Returned /\ IsCreateTable /\ Stmt.Table # "") =>
        /\ PrimaryKeyMarkers(Stmt) > 1 => result = ErrMultiplePriKey
        /\ PrimaryKeyMarkers(Stmt) = 1 => result # ErrMultiplePriKey

\* No column breaks a field-length limit and no constraint repeats a column.
NoEarlierGrammarError(stmt) ==
    /\ \A i \in 1..Len(stmt.Cols) : checkFieldLengthLimitation(stmt.Cols[i]) = NoErr
    /\ \A i \in 1..Len(stmt.Constraints) :
          checkDuplicateColumnName(stmt.Constraints[i].Keys) = NoErr

(* C2 (amended): for a CreateTable with a non-empty table name, if the
   columns carrying a PRIMARY KEY option plus the table-level primary-key
   constraints number more than one, Validate returns an error, and the
   first error it records is the multiple-primary-key error unless a column
   breaks a field-length limit or a constraint repeats a column; with
   exactly one primary-key marker Validate never returns the
   multiple-primary-key error. *)
C2_MultiplePrimaryKeyRejected ==
    (Returned /\ IsCreateTable /\ Stmt.Table # "") =>
        /\ PrimaryKeyDeclarations(Stmt) > 1 =>
              /\ result # NoErr
              /\ assigned # <<>>
              /\ NoEarlierGrammarError(Stmt) => assigned[1] = ErrMultiplePriKey
        /\ PrimaryKeyMarkers(Stmt) = 1 => result # ErrMultiplePriKey

C2_Witness ==
    /\ Returned /\ IsCreateTable /\ Stmt.Table # ""
    /\ PrimaryKeyDeclarations(Stmt) > 1
    /\ NoEarlierGrammarError(Stmt)
    /\ assigned[1] = ErrMultiplePriKey
    /\ result # NoErr

\* The column is a key by itself: a PRIMARY KEY or UNIQUE option of its own,
\* or the first column of a key, index, unique or primary-key constraint.
ColumnIsKey(stmt, i) ==
    \/ HasOption(stmt.Cols[i], "ColumnOptionPrimaryKey")
    \/ HasOption(stmt.Cols[i], "ColumnOptionUniqKey")
    \/ \E k \in 1..Len(stmt.Constraints) :
          /\ stmt.Constraints[k].Tp \in KeyConstraintTps
          /\ stmt.Constraints[k].Keys[1] = stmt.Cols[i].Name

EngineIs(stmt, name) ==
    \E i \in 1..Len(stmt.Options) :
        /\ stmt.Options[i].Tp = "TableOptionEngine"
        /\ ToLower(stmt.Options[i].StrValue) = ToLower(name)

(* C3: a CreateTable with exactly one auto-increment column and an engine
   other than MyISAM is accepted only if the auto-increment column itself is
   a key; a key marker on another column does not count. *)
C3_AutoColumnItselfIsKey ==
    (/\ Returned /\ IsCreateTable
     /\ Cardinality(AutoIncrementCols(Stmt)) = 1
     /\ ~EngineIs(Stmt, "MyISAM")
     /\ result = NoErr)
    => \A i \in AutoIncrementCols(Stmt) : ColumnIsKey(Stmt, i)

(* C4: a Dashbase CreateTable that passes the entry-time check returns the
   "DASHBASE_CONN option is required" error when it has no DASHBASE_CONN
   option, and the "DASHBASE_CONN is not valid" error when the first such
   option does not parse; the caller receives that error and no other. *)
C4_DashbaseConnErrorReturned ==
    (/\ Returned /\ IsCreateTable
     /\ checkCreateTableGrammar(Stmt) = NoErr
     /\ isEngineDashbase(Stmt))
    => LET opt == getStmtTableOption(Stmt, "TableOptionDashbaseConnection")
       IN  /\ opt = 0 => result = ErrDashbaseConnRequired
           /\ (opt # 0 /\ ~ParseConnectionOption(Stmt.Options[opt].StrValue))
                 => result = ErrDashbaseConnInvalid

\* The Limit nodes whose count is present and is no parameter marker.
ConcreteLimits(t) ==
    {n \in 1..Len(t) : /\ t[n].kind = "Limit"
                       /\ t[n].Count # 0
                       /\ t[t[n].Count].kind = "ValueExpr"}

\* min(count, max uint64 - offset) of Limit node n of tree t.
SaturatedCount(t, n) ==
    Min(t[t[n].Count].val, MaxUint64 - Uint64Of(t, t[n].Offset))

(* C5: after Validate, the count of every Limit node with a concrete count
   equals min(count, max uint64 - offset) of the node as it was passed in. *)
C5_LimitCountClamped ==
    Returned =>
        \A n \in ConcreteLimits(input) :
            tree[tree[n].Count].val = SaturatedCount(input, n)

(* C5 (amended): when the exit handler of a Limit node with a concrete count
   runs, it leaves the count at min(count, max uint64 - offset) and writes no
   error; so whenever Validate returns no error every such count equals the
   min of the count passed in, while a Limit node the traversal never
   leaves, because an earlier node's error ended it, keeps its count. *)
C5_LimitCountClampedWhenLeft ==
    [][/\ (pc = "walk" /\ cursor.phase = "leave" /\ cursor.node \in ConcreteLimits(tree))
          => /\ tree'[tree[cursor.node].Count].val = SaturatedCount(tree, cursor.node)
             /\ v'.err = v.err
             /\ assigned' = assigned
       /\ (pc' = "idle" /\ calls' >= 1 /\ result' = NoErr)
          => \A n \in ConcreteLimits(input) :
                tree'[tree'[n].Count].val = SaturatedCount(input, n)
       /\ (pc = "walk" /\ ~(cursor.phase = "leave" /\ tree[cursor.node].kind = "Limit"))
          => tree' = tree]_vars

C5_Witness ==
    /\ Returned /\ result = NoErr
    /\ \E n \in ConcreteLimits(input) :
          /\ input[input[n].Count].val > MaxUint64 - Uint64Of(input, input[n].Offset)
          /\ Uint64Of(input, input[n].Offset) > 0
          /\ tree[tree[n].Count].val = MaxUint64 - Uint64Of(input, input[n].Offset)

RECURSIVE HasAggregateAncestor(_, _)
HasAggregateAncestor(t, n) ==
    LET p == t[n].parent
    IN  IF p = 0 THEN FALSE
        ELSE t[p].kind = "AggregateFuncExpr" \/ HasAggregateAncestor(t, p)

Aggregates(t) == {n \in 1..Len(t) : t[n].kind = "AggregateFuncExpr"}

NestedAggregate(t) == \E n \in Aggregates(t) : HasAggregateAncestor(t, n)

\* An expression tree holding no violation other than, possibly, nested
\* aggregates.
NoOtherViolation(t) ==
    /\ t[1].kind \notin {"CreateTableStmt", "CreateIndexStmt", "AlterTableStmt"}
    /\ inPrepare \/ \A n \in 1..Len(t) : t[n].kind # "ParamMarkerExpr"

(* C6: on a tree with no other violation, Validate returns the
   aggregate-nesting error exactly when an aggregate node is a proper
   descendant of another aggregate node; sibling aggregates are accepted,
   and the nesting flag is false again when an accepted walk ends. *)
C6_AggregateNesting ==
    (Returned /\ NoOtherViolation(input)) =>
        /\ result = ErrInvalidGroupFuncUse <=> NestedAggregate(input)
        /\ ~NestedAggregate(input) => result = NoErr /\ ~v.inAggregate

C6_Witness ==
    /\ Returned /\ NoOtherViolation(input) /\ result = NoErr
    /\ \E m, n \in Aggregates(input) : m # n /\ input[m].parent = input[n].parent

(* C7: a Dashbase CreateTable that Validate accepts declares exactly one
   primary key overall, on a column of the statement of type datetime. *)
C7_DashbasePrimaryKeyIsDatetime ==
    (Returned /\ IsCreateTable /\ isEngineDashbase(Stmt) /\ result = NoErr) =>
        /\ PrimaryKeyMarkers(Stmt) = 1
        /\ \/ \E i \in 1..Len(Stmt.Cols) :
                 /\ HasOption(Stmt.Cols[i], "ColumnOptionPrimaryKey")
                 /\ Stmt.Cols[i].Tp.Tp = "TypeDatetime"
           \/ \E k \in PrimaryKeyConstraints(Stmt) : \E i \in 1..Len(Stmt.Cols) :
                 /\ Stmt.Cols[i].Name = Stmt.Constraints[k].Keys[1]
                 /\ Stmt.Cols[i].Tp.Tp = "TypeDatetime"

(* C8: a CreateTable with an auto-increment column whose declared type is
   not tiny-int, small-int, int24, int, big-int, float or double is rejected
   with an auto-increment error, whatever the column's key status and
   whatever other columns carry the option. *)
C8_AutoIncrementType ==
    (/\ Returned /\ IsCreateTable
     /\ \E i \in AutoIncrementCols(Stmt) : Stmt.Cols[i].Tp.Tp \notin AutoIncrementTps)
    => result.kind \in AutoIncrementErrors

C8_Witness ==
    /\ Returned /\ IsCreateTable
    /\ \E i \in AutoIncrementCols(Stmt) :
          /\ Stmt.Cols[i].Tp.Tp \notin AutoIncrementTps
          /\ ColumnIsKey(Stmt, i)
    /\ result.kind = "Incorrect column specifier"

(* C9: validating an accepted tree a second time returns no error again and
   changes no node; the Limit clamp of the first call is not applied anew. *)
C9_Idempotent ==
    [][calls = 2 => /\ tree' = tree
                    /\ pc' = "idle" => result' = NoErr]_vars

C9_Witness ==
    /\ Returned /\ calls = 2 /\ result = NoErr
    /\ tree # input

ConflictingDefault(colDef) ==
    /\ HasOption(colDef, "ColumnOptionAutoIncrement")
    /\ \E i \in 1..Len(colDef.Options) : NonNullDefault(colDef.Options[i])

(* C10: a column listing both the auto-increment option and a non-null
   default value is reported with the "Invalid default value" error in
   either order and with any other options around them, and a column whose
   defaults are all NULL is never reported for this reason. *)
C10_DefaultConflictSymmetric ==
    (Returned /\ IsCreateTable) =>
        /\ (\E i \in 1..Len(Stmt.Cols) : ConflictingDefault(Stmt.Cols[i]))
              => result.kind = "Invalid default value"
        /\ \A i \in 1..Len(Stmt.Cols) :
              result = ErrInvalidDefault(Stmt.Cols[i].Name)
                 => ConflictingDefault(Stmt.Cols[i])

C10_Witness ==
    /\ Returned /\ IsCreateTable
    /\ \E i \in 1..Len(Stmt.Cols) :
          LET ops == Stmt.Cols[i].Options
          IN  /\ Len(ops) = 3
              /\ NonNullDefault(ops[1])
              /\ ops[2].Tp = "ColumnOptionPrimaryKey"
              /\ ops[3].Tp = "ColumnOptionAutoIncrement"
    /\ result.kind = "Invalid default value"

====
